---- MODULE Spec2Model ----
(***************************************************************************)
(* A model of minisweagent.models.trapi_model: the TrapiModel adapter, its *)
(* construction from keyword arguments and the environment, the tenacity   *)
(* retry loop wrapped around TrapiModel._query, and TrapiModel.query with  *)
(* its per-instance and process-wide usage counters.                       *)
(***************************************************************************)
EXTENDS Integers, Sequences, FiniteSets, TLC

VARIABLES
    environ,             \* os.environ: variable name -> value
    models,              \* the TrapiModel instances of the process
    GLOBAL_MODEL_STATS,  \* the process-wide usage statistics
    thread,              \* one query invocation per calling thread
    invocations,         \* number of query invocations started so far
    n_returned           \* per instance, the query invocations that returned a result

vars == <<environ, models, GLOBAL_MODEL_STATS, thread, invocations, n_returned>>

----------------------------------------------------------------------------
(* Python values *)

None == [tag |-> "None"]
Str(s) == [tag |-> "str", val |-> s]
EmptyDict == [k \in {} |-> 0]

\* Python truthiness of an Optional[str]
Truthy(v) == v.tag = "str" /\ v.val # ""

\* Python `a or b`
PyOr(a, b) == IF Truthy(a) THEN a ELSE b

\* Python `a | b` on dicts: the right operand wins on a key collision
DictUnion(a, b) ==
    [k \in (DOMAIN a) \cup (DOMAIN b) |-> IF k \in DOMAIN b THEN b[k] ELSE a[k]]

----------------------------------------------------------------------------
(* Bounds of the model *)

MaxInvocations == 3
MaxConcInvocations == 2

Instances == {"m1", "m2"}
Threads == {"t1", "t2"}

\* The sequential specification uses one instance and one calling thread.
SeqInstances == {"m1"}
SeqThreads == {"t1"}

----------------------------------------------------------------------------
(* The model name table *)

MODEL_DICT ==
    ("gpt-4o" :> "gpt-4o_2024-11-20") @@
    ("gpt-4_turbo" :> "gpt-4_turbo-2024-04-09") @@
    ("gpt-4.1" :> "gpt-4.1_2025-04-14") @@
    ("model-router" :> "model-router_2025-05-19") @@
    ("o3" :> "o3_2025-04-16") @@
    ("gpt-4o-mini" :> "gpt-4o-mini_2024-07-18") @@
    ("o1" :> "o1_2024-12-17") @@
    ("gpt-4.1-nano" :> "gpt-4.1-nano_2025-04-14") @@
    ("gpt-4.1-mini" :> "gpt-4.1-mini_2025-04-14") @@
    ("o4-mini" :> "o4-mini_2025-04-16") @@
    ("text-embedding-3-large" :> "text-embedding-3-large_1") @@
    ("text-embedding-3-small" :> "text-embedding-3-small_1") @@
    ("computer-use-preview" :> "computer-use-preview_2025-03-11") @@
    ("gpt-5" :> "gpt-5_2025-08-07") @@
    ("gpt-5-mini" :> "gpt-5-mini_2025-08-07") @@
    ("gpt-5-nano" :> "gpt-5-nano_2025-08-07") @@
    ("gpt-5-chat" :> "gpt-5-chat_2025-08-07") @@
    ("o1-mini" :> "o1-mini_2024-09-12") @@
    ("gpt-image-1" :> "gpt-image-1") @@
    ("grok-3" :> "grok-3_1")

----------------------------------------------------------------------------
(* Exceptions *)

NoExc == [type |-> "none"]
KeyError(key) == [type |-> "KeyError", key |-> key]
IndexError == [type |-> "IndexError"]
\* An exception raised by the client call of attempt n; n gives it its identity.
ClientError(type, n) == [type |-> type, attempt |-> n]
\* A user interrupt, raised while the request of attempt n is in flight or
\* during the sleep that follows attempt n.
KeyboardInterrupt(n, during) ==
    [type |-> "KeyboardInterrupt", attempt |-> n, during |-> during]
\* tenacity.RetryError(last_attempt)
RetryError(n, exc) ==
    [type |-> "RetryError", last_attempt |-> [attempt_number |-> n, exception |-> exc]]

\* The errors a client call raises besides a user interrupt: transport
\* failures and a failure of every credential of the chain.
ClientErrorTypes == {"APIConnectionError", "ClientAuthenticationError"}

----------------------------------------------------------------------------
(* Construction: TrapiModelConfig and TrapiModel.__init__ *)

NoModel == [state |-> "none"]

FullEnviron ==
    ("TRAPI_INSTANCE" :> "gcr/preview") @@
    ("TRAPI_API_VERSION" :> "2024-12-01-preview") @@
    ("TRAPI_SCOPE" :> "api://trapi/.default") @@
    ("TRAPI_URL" :> "https://trapi.research.microsoft.com")

\* The environment variables __init__ reads, in the order it reads them.
EnvKeys == <<"TRAPI_INSTANCE", "TRAPI_API_VERSION", "TRAPI_SCOPE", "TRAPI_URL">>

\* dict.get(key, default)
DictGet(d, key, default) == IF key \in DOMAIN d THEN d[key] ELSE default

\* TrapiModelConfig.__post_init__
TrapiModelConfig(kw) ==
    [kw EXCEPT !.model_kwargs = IF kw.model_kwargs = None THEN EmptyDict ELSE @]

\* The first key whose lookup raises KeyError while the dict literal of
\* __init__ is evaluated, or "" when none does.  Every os.environ[...] is
\* evaluated as the default argument of kwargs.get, whether or not the keyword
\* was supplied.
InitKeyError(kwargs, env) ==
    IF "model_name" \notin DOMAIN kwargs THEN "model_name"
    ELSE LET missing == {j \in 1..Len(EnvKeys) : EnvKeys[j] \notin DOMAIN env}
         IN IF missing = {} THEN ""
            ELSE EnvKeys[CHOOSE j \in missing : \A l \in missing : j <= l]

\* The instance __init__ leaves behind, or the exception it raises; kwargs
\* records the keyword arguments of the call.
NewTrapiModel(kwargs, env) ==
    IF InitKeyError(kwargs, env) # ""
    THEN [state |-> "failed", kwargs |-> kwargs,
          exc |-> KeyError(InitKeyError(kwargs, env))]
    ELSE [state |-> "ok",
          kwargs |-> kwargs,
          exc |-> NoExc,
          trapi_config |-> TrapiModelConfig(
              [model_name |-> kwargs["model_name"],
               instance |-> DictGet(kwargs, "instance", env["TRAPI_INSTANCE"]),
               api_version |-> DictGet(kwargs, "api_version", env["TRAPI_API_VERSION"]),
               scope |-> DictGet(kwargs, "scope", env["TRAPI_SCOPE"]),
               trapi_url |-> DictGet(kwargs, "trapi_url", env["TRAPI_URL"]),
               model_kwargs |-> DictGet(kwargs, "model_kwargs", EmptyDict)]),
          n_calls |-> 0,
          cost |-> 0]

----------------------------------------------------------------------------
(* The retry policy of the @retry decorator (tenacity) *)

StopAttempts == 10
WaitMultiplier == 1
WaitMin == 4
WaitMax == 60

Min(a, b) == IF a <= b THEN a ELSE b
Max(a, b) == IF a >= b THEN a ELSE b

\* Mutant: the ceiling compared with > instead of >=
stop_after_attempt_off_by_one(attempt_number) == attempt_number > StopAttempts

\* stop_after_attempt(10): stop once the attempt number has reached 10
stop_after_attempt(attempt_number) == attempt_number >= StopAttempts

\* Mutant: the floor taken for the first term of the exponential
wait_exponential_from_min(attempt_number) ==
    Min(WaitMin * 2^(attempt_number - 1), WaitMax)

\* wait_exponential(multiplier=1, min=4, max=60): multiplier * 2^(n-1) after
\* the n-th attempt, clamped into [min, max]
wait_exponential(attempt_number) ==
    Max(Max(0, WaitMin), Min(WaitMultiplier * 2^(attempt_number - 1), WaitMax))

\* Mutant: a failure of the credential chain excluded from the retries too
retry_if_not_interrupt_or_auth(exc) ==
    exc.type \notin {"KeyboardInterrupt", "ClientAuthenticationError"}

\* Mutant: no retry predicate, every exception is retried
retry_if_any_exception(exc) == TRUE

\* retry_if_not_exception_type((KeyboardInterrupt,))
retry_if_not_exception_type(exc) == exc.type # "KeyboardInterrupt"

----------------------------------------------------------------------------
(* TrapiModel._query: the arguments of client.chat.completions.create *)

\* Mutant: the operands of | swapped, the configured value wins
merged_kwargs_swapped(config, kwargs) == DictUnion(kwargs, config.model_kwargs)

\* merged_kwargs = self.trapi_config.model_kwargs | kwargs
merged_kwargs(config, kwargs) == DictUnion(config.model_kwargs, kwargs)

\* Mutant: the logical name sent as it is, without the table
DeploymentName_unmapped(config) == config.model_name

\* MODEL_DICT[self.trapi_config.model_name], defined when the name is a key
DeploymentName(config) == MODEL_DICT[config.model_name]

\* Mutant: the merge done in place (|=), the configured mapping updated
trapi_config_merged_in_place(config, kwargs) ==
    [config EXCEPT !.model_kwargs = DictUnion(@, kwargs)]

\* self.trapi_config after an attempt of _query: `|` builds a new dict and
\* _query only reads self.trapi_config, so the configuration is as it was.
trapi_config_after_query(config, kwargs) == config

CreateArgs(config, messages, kwargs) ==
    [model |-> DeploymentName(config),
     messages |-> messages,
     options |-> merged_kwargs(config, kwargs)]

\* Events of one invocation, in the order they happen
RequestEvent(args) == [ev |-> "request", args |-> args]
WarningEvent(n) == [ev |-> "warning", attempt |-> n]
SleepEvent(n, seconds) == [ev |-> "sleep", attempt |-> n, seconds |-> seconds]

----------------------------------------------------------------------------
(* Responses of the gateway *)

NoResponse == [tag |-> "NoResponse"]

Response(contents) ==
    [tag |-> "ChatCompletion",
     choices |-> [j \in 1..Len(contents) |-> [message |-> [content |-> contents[j]]]]]

Responses ==
    {Response(<< >>),
     Response(<<None>>),
     Response(<<Str("")>>),
     Response(<<Str("Test response")>>),
     Response(<<Str("first"), Str("second")>>)}

\* Mutant: the content returned without the `or ""`
Content_without_default(response) == response.choices[1].message.content

\* response.choices[0].message.content or ""
Content(response) == PyOr(response.choices[1].message.content, Str(""))

----------------------------------------------------------------------------
(* Threads calling query *)

NoResult == [kind |-> "none"]
Returned(value) == [kind |-> "return", value |-> value]
Raised(exc) == [kind |-> "raise", exc |-> exc]

Counters == [n_calls |-> 0, cost |-> 0, global_n_calls |-> 0, global_cost |-> 0]

IdleThread ==
    [pc |-> "idle", self |-> "", messages |-> << >>, kwargs |-> EmptyDict,
     attempt_number |-> 0, exc |-> NoExc, response |-> NoResponse,
     n_calls_read |-> 0, log |-> << >>, result |-> NoResult, before |-> Counters]

\* Mutant: the retry re-invokes _query without the per-call keyword arguments
AfterException_drops_kwargs(t, exc) ==
    IF ~retry_if_not_exception_type(exc)
    THEN [t EXCEPT !.pc = "done", !.exc = exc, !.result = Raised(exc)]
    ELSE IF stop_after_attempt(t.attempt_number)
    THEN [t EXCEPT !.pc = "done", !.exc = exc,
                   !.result = Raised(RetryError(t.attempt_number, exc))]
    ELSE [t EXCEPT !.pc = "sleep", !.exc = exc, !.kwargs = EmptyDict,
                   !.log = @ \o <<WarningEvent(t.attempt_number),
                                   SleepEvent(t.attempt_number,
                                              wait_exponential(t.attempt_number))>>]

\* Mutant: the warning logged for every failed attempt, the last one included
AfterException_warns_on_stop(t, exc) ==
    IF ~retry_if_not_exception_type(exc)
    THEN [t EXCEPT !.pc = "done", !.exc = exc, !.result = Raised(exc)]
    ELSE IF stop_after_attempt(t.attempt_number)
    THEN [t EXCEPT !.pc = "done", !.exc = exc,
                   !.log = Append(@, WarningEvent(t.attempt_number)),
                   !.result = Raised(RetryError(t.attempt_number, exc))]
    ELSE [t EXCEPT !.pc = "sleep", !.exc = exc,
                   !.log = @ \o <<WarningEvent(t.attempt_number),
                                   SleepEvent(t.attempt_number,
                                              wait_exponential(t.attempt_number))>>]

\* What tenacity does with an attempt that raised exc: re-raise it when the
\* retry predicate rejects it, raise RetryError when the stop condition holds,
\* otherwise log a warning (before_sleep) and sleep.
AfterException(t, exc) ==
    IF ~retry_if_not_exception_type(exc)
    THEN [t EXCEPT !.pc = "done", !.exc = exc, !.result = Raised(exc)]
    ELSE IF stop_after_attempt(t.attempt_number)
    THEN [t EXCEPT !.pc = "done", !.exc = exc,
                   !.result = Raised(RetryError(t.attempt_number, exc))]
    ELSE [t EXCEPT !.pc = "sleep", !.exc = exc,
                   !.log = @ \o <<WarningEvent(t.attempt_number),
                                   SleepEvent(t.attempt_number,
                                              wait_exponential(t.attempt_number))>>]

----------------------------------------------------------------------------
(* Actions *)

\* TrapiModel(**kwargs)
TrapiModel_init(i, kwargs) ==
    /\ models[i] = NoModel
    /\ models' = [models EXCEPT ![i] = NewTrapiModel(kwargs, environ)]
    /\ UNCHANGED <<environ, GLOBAL_MODEL_STATS, thread, invocations, n_returned>>

\* A thread enters model.query(messages, **kwargs); the first attempt of
\* _query is about to run.
query_call(t, i, messages, kwargs) ==
    /\ thread[t].pc \in {"idle", "done"}
    /\ models[i].state = "ok"
    /\ invocations < MaxInvocations
    /\ invocations' = invocations + 1
    /\ thread' = [thread EXCEPT ![t] =
          [IdleThread EXCEPT !.pc = "attempt", !.self = i, !.messages = messages,
                             !.kwargs = kwargs, !.attempt_number = 1,
                             !.before = [n_calls |-> models[i].n_calls,
                                         cost |-> models[i].cost,
                                         global_n_calls |-> GLOBAL_MODEL_STATS.n_calls,
                                         global_cost |-> GLOBAL_MODEL_STATS.cost]]]
    /\ UNCHANGED <<environ, models, GLOBAL_MODEL_STATS, n_returned>>

\* An attempt whose MODEL_DICT lookup raises KeyError: no request is sent.
_query_KeyError(t) ==
    LET th == thread[t]
        config == models[th.self].trapi_config
    IN /\ th.pc = "attempt"
       /\ config.model_name \notin DOMAIN MODEL_DICT
       /\ thread' = [thread EXCEPT ![t] = AfterException(th, KeyError(config.model_name))]
       /\ models' = [models EXCEPT ![th.self].trapi_config =
             trapi_config_after_query(config, th.kwargs)]
       /\ UNCHANGED <<environ, GLOBAL_MODEL_STATS, invocations, n_returned>>

\* An attempt whose request the client answers with a response.
_query_returns(t, response) ==
    LET th == thread[t]
        config == models[th.self].trapi_config
    IN /\ th.pc = "attempt"
       /\ config.model_name \in DOMAIN MODEL_DICT
       /\ thread' = [thread EXCEPT ![t] =
             [th EXCEPT !.pc = "n_calls_load", !.exc = NoExc, !.response = response,
                        !.log = Append(@, RequestEvent(CreateArgs(config, th.messages, th.kwargs)))]]
       /\ models' = [models EXCEPT ![th.self].trapi_config =
             trapi_config_after_query(config, th.kwargs)]
       /\ UNCHANGED <<environ, GLOBAL_MODEL_STATS, invocations, n_returned>>

\* An attempt whose request fails with an error of the client.
_query_raises(t, type) ==
    LET th == thread[t]
        config == models[th.self].trapi_config
        sent == [th EXCEPT !.log = Append(@, RequestEvent(CreateArgs(config, th.messages, th.kwargs)))]
    IN /\ th.pc = "attempt"
       /\ config.model_name \in DOMAIN MODEL_DICT
       /\ thread' = [thread EXCEPT ![t] =
             AfterException(sent, ClientError(type, th.attempt_number))]
       /\ models' = [models EXCEPT ![th.self].trapi_config =
             trapi_config_after_query(config, th.kwargs)]
       /\ UNCHANGED <<environ, GLOBAL_MODEL_STATS, invocations, n_returned>>

\* An attempt during whose request the user interrupts.
_query_KeyboardInterrupt(t) ==
    LET th == thread[t]
        config == models[th.self].trapi_config
        sent == [th EXCEPT !.log = Append(@, RequestEvent(CreateArgs(config, th.messages, th.kwargs)))]
    IN /\ th.pc = "attempt"
       /\ config.model_name \in DOMAIN MODEL_DICT
       /\ thread' = [thread EXCEPT ![t] =
             AfterException(sent, KeyboardInterrupt(th.attempt_number, "request"))]
       /\ models' = [models EXCEPT ![th.self].trapi_config =
             trapi_config_after_query(config, th.kwargs)]
       /\ UNCHANGED <<environ, GLOBAL_MODEL_STATS, invocations, n_returned>>

\* The backoff sleep ends: the next attempt is about to run.
sleep_returns(t) ==
    LET th == thread[t]
    IN /\ th.pc = "sleep"
       /\ thread' = [thread EXCEPT ![t] =
             [th EXCEPT !.pc = "attempt", !.exc = NoExc,
                        !.attempt_number = @ + 1]]
       /\ UNCHANGED <<environ, models, GLOBAL_MODEL_STATS, invocations, n_returned>>

\* The user interrupts the backoff sleep, which runs outside tenacity's
\* try block: the interrupt propagates.
sleep_KeyboardInterrupt(t) ==
    LET th == thread[t]
    IN /\ th.pc = "sleep"
       /\ thread' = [thread EXCEPT ![t] =
             [th EXCEPT !.pc = "done",
                        !.exc = KeyboardInterrupt(th.attempt_number, "sleep"),
                        !.result = Raised(KeyboardInterrupt(th.attempt_number, "sleep"))]]
       /\ UNCHANGED <<environ, models, GLOBAL_MODEL_STATS, invocations, n_returned>>

\* self.n_calls += 1, the read
query_n_calls_load(t) ==
    LET th == thread[t]
    IN /\ th.pc = "n_calls_load"
       /\ thread' = [thread EXCEPT ![t] =
             [th EXCEPT !.pc = "n_calls_store", !.n_calls_read = models[th.self].n_calls]]
       /\ UNCHANGED <<environ, models, GLOBAL_MODEL_STATS, invocations, n_returned>>

\* self.n_calls += 1, the write
query_n_calls_store(t) ==
    LET th == thread[t]
    IN /\ th.pc = "n_calls_store"
       /\ models' = [models EXCEPT ![th.self].n_calls = th.n_calls_read + 1]
       /\ thread' = [thread EXCEPT ![t].pc = "cost"]
       /\ UNCHANGED <<environ, GLOBAL_MODEL_STATS, invocations, n_returned>>

\* self.cost += cost, with cost = 0.0: whatever value a torn read-modify-write
\* writes back is the value it read plus 0.0
query_cost(t) ==
    LET th == thread[t]
    IN /\ th.pc = "cost"
       /\ models' = [models EXCEPT ![th.self].cost = @ + 0]
       /\ thread' = [thread EXCEPT ![t].pc = "stats_add"]
       /\ UNCHANGED <<environ, GLOBAL_MODEL_STATS, invocations, n_returned>>

\* GLOBAL_MODEL_STATS.add(cost)
GlobalModelStats_add(stats, cost) ==
    [stats EXCEPT !.n_calls = @ + 1, !.cost = @ + cost]

query_stats_add(t) ==
    LET th == thread[t]
    IN /\ th.pc = "stats_add"
       /\ GLOBAL_MODEL_STATS' = GlobalModelStats_add(GLOBAL_MODEL_STATS, 0)
       /\ thread' = [thread EXCEPT ![t].pc = "return"]
       /\ UNCHANGED <<environ, models, invocations, n_returned>>

\* return {"content": response.choices[0].message.content or ""}
QueryResult(response) ==
    IF Len(response.choices) = 0
    THEN Raised(IndexError)
    ELSE Returned([content |-> Content(response)])

query_return(t) ==
    LET th == thread[t]
    IN /\ th.pc = "return"
       /\ thread' = [thread EXCEPT ![t] =
             [th EXCEPT !.pc = "done", !.result = QueryResult(th.response),
                        !.exc = IF QueryResult(th.response).kind = "raise"
                                THEN IndexError ELSE NoExc]]
       /\ n_returned' = [n_returned EXCEPT ![th.self] =
             IF QueryResult(th.response).kind = "return" THEN @ + 1 ELSE @]
       /\ UNCHANGED <<environ, models, GLOBAL_MODEL_STATS, invocations>>

----------------------------------------------------------------------------
(* Inputs *)

user_message == [role |-> "user", content |-> "Test message"]
system_message == [role |-> "system", content |-> "You are a helpful assistant"]

MessagesChoices == {<<user_message>>, <<system_message, user_message>>}

\* model_kwargs of the configuration and the per-call keyword arguments
ModelKwargsChoices ==
    {EmptyDict, ("temperature" :> 7) @@ ("seed" :> 1)}
QueryKwargsChoices ==
    {EmptyDict, ("temperature" :> 2) @@ ("max_tokens" :> 100)}

ModelNames == {"gpt-4o", "o3", "test-model"}

\* Keyword arguments of the constructor: the model name alone, with
\* model_kwargs, with every field, with some fields, and without the model name.
ExplicitFields ==
    ("instance" :> "custom/instance") @@
    ("api_version" :> "2024-10-01-preview") @@
    ("scope" :> "api://custom/.default") @@
    ("trapi_url" :> "https://custom.example")

InitKwargsChoices ==
    {("model_name" :> n) @@ ("model_kwargs" :> k) :
        n \in ModelNames, k \in ModelKwargsChoices}
    \cup {("model_name" :> "gpt-4o")}
    \cup {("model_name" :> "gpt-4o") @@ ("model_kwargs" :> None) @@ ExplicitFields}
    \cup {("model_name" :> "gpt-4o") @@ ("instance" :> "custom/instance")
              @@ ("api_version" :> "2024-10-01-preview")}
    \cup {ExplicitFields}

Environs ==
    {FullEnviron,
     [k \in {} |-> ""],
     [k \in (DOMAIN FullEnviron) \ {"TRAPI_SCOPE"} |-> FullEnviron[k]]}

----------------------------------------------------------------------------
(* Specifications *)

ThreadStep(t) ==
    \/ _query_KeyError(t)
    \/ \E r \in Responses : _query_returns(t, r)
    \/ \E e \in ClientErrorTypes : _query_raises(t, e)
    \/ _query_KeyboardInterrupt(t)
    \/ sleep_returns(t)
    \/ sleep_KeyboardInterrupt(t)
    \/ query_n_calls_load(t)
    \/ query_n_calls_store(t)
    \/ query_cost(t)
    \/ query_stats_add(t)
    \/ query_return(t)

Init ==
    /\ environ \in Environs
    /\ models = [i \in Instances |-> NoModel]
    /\ GLOBAL_MODEL_STATS = [n_calls |-> 0, cost |-> 0]
    /\ thread = [t \in Threads |-> IdleThread]
    /\ invocations = 0
    /\ n_returned = [i \in Instances |-> 0]

\* One thread calling one instance, one invocation after the other.
Next ==
    \/ \E i \in SeqInstances, kw \in InitKwargsChoices : TrapiModel_init(i, kw)
    \/ \E t \in SeqThreads, i \in SeqInstances, m \in MessagesChoices,
          kw \in QueryKwargsChoices : query_call(t, i, m, kw)
    \/ \E t \in SeqThreads : ThreadStep(t)

Spec == Init /\ [][Next]_vars

\* Two threads calling two instances that were constructed beforehand, in any
\* interleaving of their steps.
ConcInit ==
    /\ environ = FullEnviron
    /\ models = [i \in Instances |->
                    NewTrapiModel(("model_name" :> (IF i = "m1" THEN "gpt-4o" ELSE "o3")),
                                  FullEnviron)]
    /\ GLOBAL_MODEL_STATS = [n_calls |-> 0, cost |-> 0]
    /\ thread = [t \in Threads |-> IdleThread]
    /\ invocations = 0
    /\ n_returned = [i \in Instances |-> 0]

ConcResponses == {Response(<< >>), Response(<<Str("Test response")>>)}

ConcNext ==
    \/ \E t \in Threads, i \in Instances :
          invocations < MaxConcInvocations /\ query_call(t, i, <<user_message>>, EmptyDict)
    \/ \E t \in Threads, r \in ConcResponses : _query_returns(t, r)
    \/ \E t \in Threads : _query_raises(t, "APIConnectionError")
    \/ \E t \in Threads : sleep_returns(t)
    \/ \E t \in Threads : query_n_calls_load(t)
    \/ \E t \in Threads : query_n_calls_store(t)
    \/ \E t \in Threads : query_cost(t)
    \/ \E t \in Threads : query_stats_add(t)
    \/ \E t \in Threads : query_return(t)

ConcSpec == ConcInit /\ [][ConcNext]_vars

----------------------------------------------------------------------------
(* Properties *)

IsRequest(e) == e.ev = "request"
IsWarning(e) == e.ev = "warning"
IsSleep(e) == e.ev = "sleep"

Requests(log) == SelectSeq(log, IsRequest)
Warnings(log) == SelectSeq(log, IsWarning)
Sleeps(log) == SelectSeq(log, IsSleep)

\* The counters are what they were when the invocation of th started.
CountersUnchanged(th) ==
    /\ models[th.self].n_calls = th.before.n_calls
    /\ models[th.self].cost = th.before.cost
    /\ GLOBAL_MODEL_STATS.n_calls = th.before.global_n_calls
    /\ GLOBAL_MODEL_STATS.cost = th.before.global_cost

\* The call counters are one higher than when the invocation of th started.
CallCountersUpByOne(th) ==
    /\ models[th.self].n_calls = th.before.n_calls + 1
    /\ GLOBAL_MODEL_STATS.n_calls = th.before.global_n_calls + 1

\* The invocation of th ended after every one of its attempts failed with an
\* error of the client (no response, no interrupt).
AllAttemptsFailed(th) ==
    /\ th.pc = "done"
    /\ th.response = NoResponse
    /\ th.exc.type \in ClientErrorTypes

\* C1: when the first N < 10 attempts of an invocation fail with an error other
\* than an interrupt and attempt N+1 gets a response, query returns a result,
\* exactly N+1 requests were sent and the call counters are one higher than
\* before the invocation.
C1_SuccessAfterRetries ==
    \A t \in Threads :
        LET th == thread[t]
            N == Len(Warnings(th.log))
        IN (th.pc = "done" /\ th.response # NoResponse /\ N < 10)
           => /\ th.result.kind = "return"
              /\ Len(Requests(th.log)) = N + 1
              /\ th.attempt_number = N + 1
              /\ CallCountersUpByOne(th)

\* What remains of C1 when the response holds at least one choice.
C1_WithAChoice ==
    \A t \in Threads :
        LET th == thread[t]
            N == Len(Warnings(th.log))
        IN (th.pc = "done" /\ th.response # NoResponse /\ N < 10
                /\ Len(th.response.choices) > 0)
           => /\ th.result.kind = "return"
              /\ Len(Requests(th.log)) = N + 1
              /\ th.attempt_number = N + 1
              /\ CallCountersUpByOne(th)

\* C2: an invocation never sends an 11th request; when every attempt fails
\* with an error other than an interrupt, exactly 10 requests were sent, query
\* raises, and the call counters and cost accumulators are what they were
\* before the invocation.
C2_TenAttemptsThenRaise ==
    \A t \in Threads :
        LET th == thread[t]
        IN /\ th.attempt_number <= 10
           /\ Len(Requests(th.log)) <= 10
           /\ AllAttemptsFailed(th)
              => /\ Len(Requests(th.log)) = 10
                 /\ th.attempt_number = 10
                 /\ th.result.kind = "raise"
                 /\ CountersUnchanged(th)

C2_Witness ==
    \E t \in Threads :
        /\ AllAttemptsFailed(thread[t])
        /\ Len(Requests(thread[t].log)) = 10
        /\ Len(Sleeps(thread[t].log)) = 9

\* C3: when all 10 attempts fail, the error query raises is the error of the
\* 10th attempt itself, not another error value wrapping or replacing it.
C3_LastErrorUntransformed ==
    \A t \in Threads :
        LET th == thread[t]
        IN AllAttemptsFailed(th) => th.result = Raised(th.exc)

\* What the code raises instead: tenacity's RetryError around the 10th attempt.
C3_RetryErrorRaised ==
    \A t \in Threads :
        LET th == thread[t]
        IN AllAttemptsFailed(th)
           => /\ th.exc = ClientError(th.exc.type, 10)
              /\ th.result = Raised(RetryError(10, th.exc))

\* C4: a user interrupt raised during the request of attempt k ends the
\* invocation there: the interrupt itself is raised to the caller, the request
\* of attempt k is the last event (no warning, no sleep, no attempt k+1), k
\* requests were sent, and the counters are what they were before.
C4_InterruptAborts ==
    \A t \in Threads :
        LET th == thread[t]
        IN (th.exc.type = "KeyboardInterrupt" /\ th.exc.during = "request")
           => /\ th.pc = "done"
              /\ th.result = Raised(KeyboardInterrupt(th.attempt_number, "request"))
              /\ th.attempt_number \in 1..10
              /\ Len(Requests(th.log)) = th.attempt_number
              /\ Len(Sleeps(th.log)) = th.attempt_number - 1
              /\ IsRequest(th.log[Len(th.log)])
              /\ CountersUnchanged(th)

C4_Witness ==
    \E t \in Threads :
        /\ thread[t].pc = "done"
        /\ thread[t].result = Raised(KeyboardInterrupt(3, "request"))
        /\ Len(Warnings(thread[t].log)) = 2

\* C5 as stated: the wait after the k-th failed attempt is min(60, 4 * 2^(k-1)).
C5_DoublingFromFour ==
    \A t \in Threads :
        \A j \in 1..Len(Sleeps(thread[t].log)) :
            Sleeps(thread[t].log)[j].seconds = Min(60, 4 * 2^(j - 1))

WaitSchedule == <<4, 4, 4, 8, 16, 32, 60, 60, 60>>

\* C5 (amended): the wait after the k-th failed attempt, k = 1..9, is
\* max(4, min(60, 2^(k-1))), that is 4, 4, 4, 8, 16, 32, 60, 60, 60: never
\* below 4, never above 60, and never a 10th wait.
C5_WaitSchedule ==
    \A t \in Threads :
        LET sleeps == Sleeps(thread[t].log)
        IN /\ Len(sleeps) <= 9
           /\ \A k \in 1..Len(sleeps) :
                 /\ sleeps[k].attempt = k
                 /\ sleeps[k].seconds = WaitSchedule[k]
                 /\ sleeps[k].seconds = Max(4, Min(60, 2^(k - 1)))
                 /\ sleeps[k].seconds >= 4
                 /\ sleeps[k].seconds <= 60

C5_Witness ==
    \E t \in Threads :
        /\ Len(Sleeps(thread[t].log)) = 9
        /\ Sleeps(thread[t].log)[2].seconds = 4
        /\ Sleeps(thread[t].log)[9].seconds = 60

SumOver(f) ==
    LET RECURSIVE Sum(_)
        Sum(S) == IF S = {} THEN 0
                  ELSE LET x == CHOOSE y \in S : TRUE IN f[x] + Sum(S \ {x})
    IN Sum(DOMAIN f)

\* C6: once every invocation of every thread has finished, the process-wide
\* call count equals the number of invocations that returned a result.
C6_SharedCountIsReturns ==
    (\A t \in Threads : thread[t].pc \in {"idle", "done"})
        => GLOBAL_MODEL_STATS.n_calls = SumOver(n_returned)

\* C7: an invocation on an instance whose model name is not a key of
\* MODEL_DICT runs the lookup once: no request, no warning, no sleep, no second
\* attempt, and it ends raising the KeyError that names the model name.
C7_UnknownModelNotRetried ==
    \A t \in Threads :
        LET th == thread[t]
        IN (th.pc # "idle"
                /\ models[th.self].trapi_config.model_name \notin DOMAIN MODEL_DICT)
           => /\ th.attempt_number = 1
              /\ th.log = << >>
              /\ th.pc \in {"attempt", "done"}
              /\ th.pc = "done"
                 => th.result = Raised(KeyError(models[th.self].trapi_config.model_name))

\* What holds of the lookup miss: no request is ever sent, and each attempt
\* raises the KeyError naming the model name.
C7_NoRequestSent ==
    \A t \in Threads :
        LET th == thread[t]
        IN (th.pc # "idle"
                /\ models[th.self].trapi_config.model_name \notin DOMAIN MODEL_DICT)
           => /\ Requests(th.log) = << >>
              /\ th.exc \in {NoExc, KeyError(models[th.self].trapi_config.model_name),
                             KeyboardInterrupt(th.attempt_number, "sleep")}

\* C8: every request of an invocation on an instance whose model name is a key
\* of MODEL_DICT, the first one and every retry, carries as its model the
\* value MODEL_DICT maps the name to.
C8_RequestModelIsMapped ==
    \A t \in Threads :
        LET th == thread[t]
        IN \A j \in 1..Len(th.log) :
              (IsRequest(th.log[j])
                    /\ models[th.self].trapi_config.model_name \in DOMAIN MODEL_DICT)
              => th.log[j].args.model = MODEL_DICT[models[th.self].trapi_config.model_name]

C8_Witness ==
    \E t \in Threads :
        /\ Len(Requests(thread[t].log)) = 3
        /\ models[thread[t].self].trapi_config.model_name = "o3"
        /\ Requests(thread[t].log)[3].args.model = "o3_2025-04-16"

\* C9: the options of every request are the merge of the configured
\* model_kwargs and the per-call kwargs: a key of both carries the per-call
\* value, a key of one carries its value there, and there is no other key.
C9_OptionsAreMerged ==
    \A t \in Threads :
        LET th == thread[t]
        IN \A j \in 1..Len(th.log) :
              IsRequest(th.log[j])
              => LET sent == th.log[j].args.options
                     configured == models[th.self].trapi_config.model_kwargs
                 IN /\ DOMAIN sent = (DOMAIN configured) \cup (DOMAIN th.kwargs)
                    /\ \A k \in DOMAIN th.kwargs : sent[k] = th.kwargs[k]
                    /\ \A k \in (DOMAIN configured) \ (DOMAIN th.kwargs) :
                          sent[k] = configured[k]

C9_Witness ==
    \E t \in Threads :
        /\ thread[t].log # << >>
        /\ IsRequest(thread[t].log[1])
        /\ models[thread[t].self].trapi_config.model_kwargs
              = ("temperature" :> 7) @@ ("seed" :> 1)
        /\ thread[t].kwargs = ("temperature" :> 2) @@ ("max_tokens" :> 100)
        /\ thread[t].log[1].args.options
              = ("temperature" :> 2) @@ ("seed" :> 1) @@ ("max_tokens" :> 100)

\* C10: every result query returns is a record whose only field, content, is
\* a string: the content of the first choice's message when that is a string,
\* and the empty string when that content is None.
C10_ContentIsAString ==
    \A t \in Threads :
        LET th == thread[t]
        IN (th.pc = "done" /\ th.result.kind = "return")
           => LET first == th.response.choices[1].message.content
              IN /\ DOMAIN th.result.value = {"content"}
                 /\ th.result.value.content.tag = "str"
                 /\ first.tag = "str" => th.result.value.content = first
                 /\ first = None => th.result.value.content = Str("")

C10_Witness ==
    \E t \in Threads :
        /\ thread[t].pc = "done"
        /\ thread[t].response = Response(<<None>>)
        /\ thread[t].result = Returned([content |-> Str("")])

\* No query invocation is in progress.
Quiescent == \A t \in Threads : thread[t].pc \in {"idle", "done"}

\* C11: after any sequence of invocations made one after the other, the call
\* counter of the instance equals the number of invocations that returned a
\* result and its cost accumulator is 0.0.
C11_CountIsReturns ==
    Quiescent
    => \A i \in Instances :
          models[i].state = "ok"
          => /\ models[i].n_calls = n_returned[i]
             /\ models[i].cost = 0

\* The part of C11 that holds: no step lowers a call counter, the cost stays
\* 0.0, and the call counter is never below the number of returned invocations.
C11_NeverDecreases ==
    [][\A i \in Instances :
          (models[i].state = "ok" /\ models'[i].state = "ok")
          => /\ models'[i].n_calls >= models[i].n_calls
             /\ models'[i].cost = 0
             /\ GLOBAL_MODEL_STATS'.n_calls >= GLOBAL_MODEL_STATS.n_calls]_vars

\* C17: an invocation that ends by raising, whatever the error, leaves the
\* counters of the instance and the process-wide statistics as they were
\* before the invocation.
C17_RaiseLeavesCounters ==
    \A t \in Threads :
        LET th == thread[t]
        IN (th.pc = "done" /\ th.result.kind = "raise") => CountersUnchanged(th)

\* What holds instead: only the IndexError of response.choices[0] is raised
\* after the counters were updated.
C17_ExceptIndexError ==
    \A t \in Threads :
        LET th == thread[t]
        IN (th.pc = "done" /\ th.result.kind = "raise" /\ th.result.exc # IndexError)
           => CountersUnchanged(th)

\* The required fields of the configuration and the environment variable
\* each falls back to ("" for model_name, which has none).
RequiredFields == {"model_name", "instance", "api_version", "scope", "trapi_url"}
EnvVarOf ==
    ("model_name" :> "") @@ ("instance" :> "TRAPI_INSTANCE") @@
    ("api_version" :> "TRAPI_API_VERSION") @@ ("scope" :> "TRAPI_SCOPE") @@
    ("trapi_url" :> "TRAPI_URL")

\* The required fields that have no value after fallback resolution.
AbsentFields(kwargs, env) ==
    {f \in RequiredFields : f \notin DOMAIN kwargs /\ EnvVarOf[f] \notin DOMAIN env}

\* C12: a construction given model_name, instance, api_version, scope and
\* trapi_url explicitly succeeds in every environment, and the resolved
\* configuration holds exactly the values given.
C12_ExplicitConfigSucceeds ==
    \A i \in Instances :
        (models[i].state # "none" /\ RequiredFields \subseteq DOMAIN models[i].kwargs)
        => /\ models[i].state = "ok"
           /\ \A f \in RequiredFields :
                 models[i].trapi_config[f] = models[i].kwargs[f]

\* What holds of C12: when the four environment variables are set, an
\* explicit configuration is echoed exactly.
C12_WhenEnvironSet ==
    \A i \in Instances :
        (models[i].state # "none" /\ RequiredFields \subseteq DOMAIN models[i].kwargs
            /\ DOMAIN environ = DOMAIN FullEnviron)
        => /\ models[i].state = "ok"
           /\ \A f \in RequiredFields :
                 models[i].trapi_config[f] = models[i].kwargs[f]

\* C13: a construction for which a required field has no value after fallback
\* resolution fails, produces no adapter, and its error names a field that is
\* missing (by the field's name or by the name of its environment variable).
C13_MissingFieldNamed ==
    \A i \in Instances :
        (models[i].state # "none" /\ AbsentFields(models[i].kwargs, environ) # {})
        => /\ models[i].state = "failed"
           /\ models[i].exc.type = "KeyError"
           /\ \E f \in AbsentFields(models[i].kwargs, environ) :
                 models[i].exc.key \in {f, EnvVarOf[f]}

\* What holds of C13: such a construction fails with a KeyError and leaves no
\* adapter.
C13_MissingFieldFails ==
    \A i \in Instances :
        (models[i].state # "none" /\ AbsentFields(models[i].kwargs, environ) # {})
        => /\ models[i].state = "failed"
           /\ models[i].exc.type = "KeyError"

\* C14: as the unit tests assert, an invocation on an instance whose model
\* name is not a key of MODEL_DICT returns a result after exactly one request,
\* whose model is the model name itself, and the call counter becomes 1.
C14_UnmappedNameIsSent ==
    \A t \in Threads :
        LET th == thread[t]
        IN (th.pc = "done" /\ th.exc.type # "KeyboardInterrupt"
                /\ models[th.self].trapi_config.model_name \notin DOMAIN MODEL_DICT)
           => /\ th.result.kind = "return"
              /\ Len(Requests(th.log)) = 1
              /\ Requests(th.log)[1].args.model = models[th.self].trapi_config.model_name
              /\ models[th.self].n_calls = th.before.n_calls + 1

\* C15: an attempt that fails with an authentication error is treated as one
\* that fails with a transport error: before the 10th attempt it is followed
\* by the warning and the backoff sleep that lead to the next attempt, and the
\* invocation only ends, with RetryError, when it is the 10th attempt.
C15_AuthErrorIsRetried ==
    \A t \in Threads :
        LET th == thread[t]
        IN (th.exc.type \in ClientErrorTypes)
           => IF th.exc.attempt < 10
              THEN /\ th.pc = "sleep"
                   /\ th.result = NoResult
                   /\ th.attempt_number = th.exc.attempt
                   /\ th.log[Len(th.log) - 1] = WarningEvent(th.exc.attempt)
                   /\ IsSleep(th.log[Len(th.log)])
                   /\ th.log[Len(th.log)].attempt = th.exc.attempt
              ELSE /\ th.pc = "done"
                   /\ th.exc.attempt = 10
                   /\ th.result = Raised(RetryError(10, th.exc))

C15_Witness ==
    \E t \in Threads :
        /\ thread[t].pc = "sleep"
        /\ thread[t].exc = ClientError("ClientAuthenticationError", 9)
        /\ Len(Requests(thread[t].log)) = 9

\* C16: in the events of an invocation every sleep comes right after exactly
\* one warning, logged for the same failed attempt, and every warning is
\* followed by its sleep, so there are as many warnings as sleeps; outside a
\* sleep that is one less than the attempts made, so neither an attempt ended
\* by an interrupt nor the failed attempt that exhausts the ceiling logs one.
C16_WarningBeforeEachSleep ==
    \A t \in Threads :
        LET th == thread[t]
            log == th.log
        IN /\ \A j \in 1..Len(log) :
                 /\ IsSleep(log[j])
                    => /\ j > 1
                       /\ log[j - 1] = WarningEvent(log[j].attempt)
                       /\ j > 2 => ~IsWarning(log[j - 2])
                 /\ IsWarning(log[j])
                    => /\ j < Len(log)
                       /\ IsSleep(log[j + 1])
           /\ Len(Warnings(log)) = Len(Sleeps(log))
           /\ th.pc = "sleep" => Len(Warnings(log)) = th.attempt_number
           /\ (th.pc \notin {"idle", "sleep"}
                  /\ ~(th.exc.type = "KeyboardInterrupt" /\ th.exc.during = "sleep"))
              => Len(Warnings(log)) = th.attempt_number - 1
           /\ (th.pc = "done" /\ th.exc.type = "KeyboardInterrupt"
                  /\ th.exc.during = "request")
              => IsRequest(log[Len(log)])
           /\ AllAttemptsFailed(th)
              => /\ Len(Warnings(log)) = 9
                 /\ IsRequest(log[Len(log)])

C16_Witness ==
    \E t \in Threads :
        /\ AllAttemptsFailed(thread[t])
        /\ Len(Warnings(thread[t].log)) = 9
        /\ Len(Requests(thread[t].log)) = 10

\* C18: whatever invocations were made, with whatever outcome and per-call
\* keyword arguments, the configuration of an instance (model name, instance,
\* API version, scope, URL and the model_kwargs mapping) is the one its
\* construction resolved.
C18_ConfigNeverChanges ==
    \A i \in Instances :
        models[i].state = "ok"
        => models[i].trapi_config = NewTrapiModel(models[i].kwargs, environ).trapi_config

C18_Witness ==
    \E t \in Threads :
        /\ invocations = 3
        /\ thread[t].pc = "done"
        /\ thread[t].result.kind = "return"
        /\ thread[t].kwargs = ("temperature" :> 2) @@ ("max_tokens" :> 100)
        /\ models[thread[t].self].trapi_config.model_kwargs
              = ("temperature" :> 7) @@ ("seed" :> 1)

\* C19: all requests of one invocation are the same request: each carries the
\* model, the messages and the options of the first one, and the messages are
\* those the caller passed.
C19_RetriesRepeatTheRequest ==
    \A t \in Threads :
        LET requests == Requests(thread[t].log)
        IN \A j \in 1..Len(requests) :
              /\ requests[j].args = requests[1].args
              /\ requests[j].args.messages = thread[t].messages

C19_Witness ==
    \E t \in Threads :
        LET requests == Requests(thread[t].log)
        IN /\ Len(requests) = 10
           /\ requests[10].args.options
                 = ("temperature" :> 2) @@ ("seed" :> 1) @@ ("max_tokens" :> 100)
           /\ requests[10].args = requests[1].args
           /\ Len(requests[10].args.messages) = 2

\* C20: whenever no invocation is in progress, the process-wide call count
\* equals the sum of the call counters of the instances.
C20_SharedCountIsSum ==
    Quiescent
    => GLOBAL_MODEL_STATS.n_calls
          = SumOver([i \in Instances |-> models[i].n_calls])

\* What holds of C20: the sum of the instance counters never exceeds the
\* process-wide count.
C20_SumAtMostShared ==
    Quiescent
    => GLOBAL_MODEL_STATS.n_calls
          >= SumOver([i \in Instances |-> models[i].n_calls])

====
